---- MODULE Spec2Model ----
(***************************************************************************)
(* Model of stix/utils/nsparser.py: the NamespaceInfo registry (collect,   *)
(* update, finalize), the default vocabulary tables it consults, and the   *)
(* rendering methods of NamespaceParser.                                   *)
(*                                                                         *)
(* Python values are modelled as follows.                                  *)
(*   - a str is a TLA+ string; a dict with str keys is a function whose    *)
(*     domain is the set of its keys;                                      *)
(*   - None and a dict stored in the same attribute are the records None   *)
(*     and Dict(d);                                                        *)
(*   - the iteration order of a dict or a set is not fixed by the code     *)
(*     (hash order), so every loop whose outcome depends on the order is   *)
(*     modelled as a choice among the outcomes some order produces;        *)
(*   - the set object bound to the None key of _collected_namespaces is a  *)
(*     heap object: registries hold a reference to it, and update() can    *)
(*     make two registries share one object.                               *)
(***************************************************************************)
EXTENDS Integers, Sequences, FiniteSets, TLC

VARIABLES
    collected_namespaces,  \* [Regs -> dict prefix -> namespace] (str keys of self._collected_namespaces)
    none_key,              \* [Regs -> Regs \cup {NoKey}]: the set object the None key refers to
    set_objects,           \* [Regs -> set of namespaces]: the set() made by each __init__
    input_namespaces,      \* [Regs -> dict] self._input_namespaces
    input_schemalocs,      \* [Regs -> dict] self._input_schemalocs
    collected_classes,     \* [Regs -> set of classes] self._collected_classes
    finalized_namespaces,  \* [Regs -> None or Dict(d)]
    finalized_schemalocs,  \* [Regs -> None or Dict(d)]
    id_namespace,          \* what idgen.get_id_namespace_alias() / get_id_namespace() return
    last,                  \* the last call made: operation, arguments, outcome
    finalize_calls,        \* [Regs -> Nat]: finalize calls made on each registry
    ncalls,                \* calls made in all
    returned,              \* what the last call returned: None or PyStr(s)
    args_after             \* the dicts the caller passed to the last call, as the call left them

vars == <<collected_namespaces, none_key, set_objects, input_namespaces,
          input_schemalocs, collected_classes, finalized_namespaces,
          finalized_schemalocs, id_namespace, last, finalize_calls, ncalls,
          returned, args_after>>

\* Calls made on the registries in one run.
MaxCalls == 3

\* The registries of a run.
Regs == {"A", "B"}

\* none_key[r] when r's _collected_namespaces has no None key.
NoKey == "no None key"

----------------------------------------------------------------------------
\* Python values

None == [type |-> "NoneType"]

Dict(d) == [type |-> "dict", items |-> d]

PyStr(s) == [type |-> "str", value |-> s]

\* The one-element tuple (v,)
PyTuple1(v) == [type |-> "tuple", value |-> v]

EmptyDict == [k \in {} |-> ""]

\* d[k] = v on a copy of d
SetItem(d, k, v) == (k :> v) @@ d

\* dict.update(other): the entries of other replace those of d
DictUpdate(d, other) == other @@ d

\* del d[k]
DelItem(d, k) == [x \in (DOMAIN d) \ {k} |-> d[x]]

\* d.items() as a set of <<key, value>> pairs
Items(d) == {<<k, d[k]>> : k \in DOMAIN d}

Values(d) == {d[k] : k \in DOMAIN d}

\* bool(x) for an argument that is None or a dict
Truthy(x) == x # None /\ DOMAIN x.items # {}

----------------------------------------------------------------------------
\* Module-level tables

\* NamespaceInfo._BASELINE_NAMESPACES: prefix -> namespace
_BASELINE_NAMESPACES ==
       ("xsi" :> "http://www.w3.org/2001/XMLSchema-instance")
    @@ ("stix" :> "http://stix.mitre.org/stix-1")
    @@ ("stixCommon" :> "http://stix.mitre.org/common-1")
    @@ ("stixVocabs" :> "http://stix.mitre.org/default_vocabularies-1")
    @@ ("cybox" :> "http://cybox.mitre.org/cybox-2")
    @@ ("cyboxCommon" :> "http://cybox.mitre.org/common-2")
    @@ ("cyboxVocabs" :> "http://cybox.mitre.org/default_vocabularies-2")

XML_NAMESPACES ==
       ("http://www.w3.org/2001/XMLSchema-instance" :> "xsi")
    @@ ("http://www.w3.org/2001/XMLSchema" :> "xs")
    @@ ("http://www.w3.org/1999/xlink" :> "xlink")
    @@ ("http://www.w3.org/2000/09/xmldsig#" :> "ds")

STIX_NS_TO_SCHEMALOCATION ==
       ("http://data-marking.mitre.org/Marking-1" :> "http://stix.mitre.org/XMLSchema/data_marking/1.1.1/data_marking.xsd")
    @@ ("http://data-marking.mitre.org/extensions/MarkingStructure#Simple-1" :> "http://stix.mitre.org/XMLSchema/extensions/marking/simple/1.1.1/simple_marking.xsd")
    @@ ("http://data-marking.mitre.org/extensions/MarkingStructure#TLP-1" :> "http://stix.mitre.org/XMLSchema/extensions/marking/tlp/1.1.1/tlp_marking.xsd")
    @@ ("http://data-marking.mitre.org/extensions/MarkingStructure#Terms_Of_Use-1" :> "http://stix.mitre.org/XMLSchema/extensions/marking/terms_of_use/1.0.1/terms_of_use_marking.xsd")
    @@ ("http://stix.mitre.org/Campaign-1" :> "http://stix.mitre.org/XMLSchema/campaign/1.1.1/campaign.xsd")
    @@ ("http://stix.mitre.org/CourseOfAction-1" :> "http://stix.mitre.org/XMLSchema/course_of_action/1.1.1/course_of_action.xsd")
    @@ ("http://stix.mitre.org/ExploitTarget-1" :> "http://stix.mitre.org/XMLSchema/exploit_target/1.1.1/exploit_target.xsd")
    @@ ("http://stix.mitre.org/Incident-1" :> "http://stix.mitre.org/XMLSchema/incident/1.1.1/incident.xsd")
    @@ ("http://stix.mitre.org/Indicator-2" :> "http://stix.mitre.org/XMLSchema/indicator/2.1.1/indicator.xsd")
    @@ ("http://stix.mitre.org/TTP-1" :> "http://stix.mitre.org/XMLSchema/ttp/1.1.1/ttp.xsd")
    @@ ("http://stix.mitre.org/ThreatActor-1" :> "http://stix.mitre.org/XMLSchema/threat_actor/1.1.1/threat_actor.xsd")
    @@ ("http://stix.mitre.org/common-1" :> "http://stix.mitre.org/XMLSchema/common/1.1.1/stix_common.xsd")
    @@ ("http://stix.mitre.org/default_vocabularies-1" :> "http://stix.mitre.org/XMLSchema/default_vocabularies/1.1.1/stix_default_vocabularies.xsd")
    @@ ("http://stix.mitre.org/extensions/AP#CAPEC2.7-1" :> "http://stix.mitre.org/XMLSchema/extensions/attack_pattern/capec_2.7/1.0.1/capec_2.7_attack_pattern.xsd")
    @@ ("http://stix.mitre.org/extensions/Address#CIQAddress3.0-1" :> "http://stix.mitre.org/XMLSchema/extensions/address/ciq_3.0/1.1.1/ciq_3.0_address.xsd")
    @@ ("http://stix.mitre.org/extensions/Identity#CIQIdentity3.0-1" :> "http://stix.mitre.org/XMLSchema/extensions/identity/ciq_3.0/1.1.1/ciq_3.0_identity.xsd")
    @@ ("http://stix.mitre.org/extensions/Malware#MAEC4.1-1" :> "http://stix.mitre.org/XMLSchema/extensions/malware/maec_4.1/1.0.1/maec_4.1_malware.xsd")
    @@ ("http://stix.mitre.org/extensions/StructuredCOA#Generic-1" :> "http://stix.mitre.org/XMLSchema/extensions/structured_coa/generic/1.1.1/generic_structured_coa.xsd")
    @@ ("http://stix.mitre.org/extensions/TestMechanism#Generic-1" :> "http://stix.mitre.org/XMLSchema/extensions/test_mechanism/generic/1.1.1/generic_test_mechanism.xsd")
    @@ ("http://stix.mitre.org/extensions/TestMechanism#OVAL5.10-1" :> "http://stix.mitre.org/XMLSchema/extensions/test_mechanism/oval_5.10/1.1.1/oval_5.10_test_mechanism.xsd")
    @@ ("http://stix.mitre.org/extensions/TestMechanism#OpenIOC2010-1" :> "http://stix.mitre.org/XMLSchema/extensions/test_mechanism/open_ioc_2010/1.1.1/open_ioc_2010_test_mechanism.xsd")
    @@ ("http://stix.mitre.org/extensions/TestMechanism#Snort-1" :> "http://stix.mitre.org/XMLSchema/extensions/test_mechanism/snort/1.1.1/snort_test_mechanism.xsd")
    @@ ("http://stix.mitre.org/extensions/TestMechanism#YARA-1" :> "http://stix.mitre.org/XMLSchema/extensions/test_mechanism/yara/1.1.1/yara_test_mechanism.xsd")
    @@ ("http://stix.mitre.org/extensions/Vulnerability#CVRF-1" :> "http://stix.mitre.org/XMLSchema/extensions/vulnerability/cvrf_1.1/1.1.1/cvrf_1.1_vulnerability.xsd")
    @@ ("http://stix.mitre.org/stix-1" :> "http://stix.mitre.org/XMLSchema/core/1.1.1/stix_core.xsd")

EXT_NS_TO_SCHEMALOCATION ==
       ("urn:oasis:names:tc:ciq:xal:3" :> "http://stix.mitre.org/XMLSchema/external/oasis_ciq_3.0/xAL.xsd")
    @@ ("urn:oasis:names:tc:ciq:xpil:3" :> "http://stix.mitre.org/XMLSchema/external/oasis_ciq_3.0/xPIL.xsd")
    @@ ("urn:oasis:names:tc:ciq:xnl:3" :> "http://stix.mitre.org/XMLSchema/external/oasis_ciq_3.0/xNL.xsd")

DEFAULT_STIX_NS_TO_PREFIX ==
       ("http://cybox.mitre.org/common-2" :> "cyboxCommon")
    @@ ("http://cybox.mitre.org/cybox-2" :> "cybox")
    @@ ("http://data-marking.mitre.org/Marking-1" :> "marking")
    @@ ("http://data-marking.mitre.org/extensions/MarkingStructure#Simple-1" :> "simpleMarking")
    @@ ("http://data-marking.mitre.org/extensions/MarkingStructure#TLP-1" :> "tlpMarking")
    @@ ("http://data-marking.mitre.org/extensions/MarkingStructure#Terms_Of_Use-1" :> "TOUMarking")
    @@ ("http://stix.mitre.org/Campaign-1" :> "campaign")
    @@ ("http://stix.mitre.org/CourseOfAction-1" :> "coa")
    @@ ("http://stix.mitre.org/ExploitTarget-1" :> "et")
    @@ ("http://stix.mitre.org/Incident-1" :> "incident")
    @@ ("http://stix.mitre.org/Indicator-2" :> "indicator")
    @@ ("http://stix.mitre.org/TTP-1" :> "ttp")
    @@ ("http://stix.mitre.org/ThreatActor-1" :> "ta")
    @@ ("http://stix.mitre.org/stix-1" :> "stix")
    @@ ("http://stix.mitre.org/common-1" :> "stixCommon")
    @@ ("http://stix.mitre.org/default_vocabularies-1" :> "stixVocabs")
    @@ ("http://stix.mitre.org/extensions/AP#CAPEC2.7-1" :> "stix-capec")
    @@ ("http://stix.mitre.org/extensions/Address#CIQAddress3.0-1" :> "stix-ciqaddress")
    @@ ("http://stix.mitre.org/extensions/Identity#CIQIdentity3.0-1" :> "ciqIdentity")
    @@ ("http://stix.mitre.org/extensions/Malware#MAEC4.1-1" :> "stix-maec")
    @@ ("http://stix.mitre.org/extensions/StructuredCOA#Generic-1" :> "genericStructuredCOA")
    @@ ("http://stix.mitre.org/extensions/TestMechanism#Generic-1" :> "genericTM")
    @@ ("http://stix.mitre.org/extensions/TestMechanism#OVAL5.10-1" :> "stix-oval")
    @@ ("http://stix.mitre.org/extensions/TestMechanism#OpenIOC2010-1" :> "stix-openioc")
    @@ ("http://stix.mitre.org/extensions/TestMechanism#Snort-1" :> "snortTM")
    @@ ("http://stix.mitre.org/extensions/TestMechanism#YARA-1" :> "yaraTM")
    @@ ("http://stix.mitre.org/extensions/Vulnerability#CVRF-1" :> "stix-cvrf")

DEFAULT_EXT_TO_PREFIX ==
       ("http://capec.mitre.org/capec-2" :> "capec")
    @@ ("http://maec.mitre.org/XMLSchema/maec-package-2" :> "maecPackage")
    @@ ("http://oval.mitre.org/XMLSchema/oval-definitions-5" :> "oval-def")
    @@ ("http://oval.mitre.org/XMLSchema/oval-variables-5" :> "oval-var")
    @@ ("http://schemas.mandiant.com/2010/ioc" :> "ioc")
    @@ ("http://schemas.mandiant.com/2010/ioc/TR/" :> "ioc-tr")
    @@ ("http://www.icasi.org/CVRF/schema/cvrf/1.1" :> "cvrf")
    @@ ("urn:oasis:names:tc:ciq:xal:3" :> "xal")
    @@ ("urn:oasis:names:tc:ciq:xpil:3" :> "xpil")
    @@ ("urn:oasis:names:tc:ciq:xnl:3" :> "xnl")

\* cybox.utils.nsparser.NS_LIST, the (namespace, prefix, schemalocation)
\* triples of the python-cybox library this module imports: the three CybOX
\* baseline vocabularies and one object vocabulary stand for the list.
NS_LIST ==
    { <<"http://cybox.mitre.org/common-2", "cyboxCommon",
        "http://cybox.mitre.org/XMLSchema/common/2.1/cybox_common.xsd">>,
      <<"http://cybox.mitre.org/cybox-2", "cybox",
        "http://cybox.mitre.org/XMLSchema/core/2.1/cybox_core.xsd">>,
      <<"http://cybox.mitre.org/default_vocabularies-2", "cyboxVocabs",
        "http://cybox.mitre.org/XMLSchema/default_vocabularies/2.1/cybox_default_vocabularies.xsd">>,
      <<"http://cybox.mitre.org/objects#AddressObject-2", "AddressObj",
        "http://cybox.mitre.org/XMLSchema/objects/Address/2.1/Address_Object.xsd">> }

\* dict((ns, schemaloc) for ns, _, schemaloc in NS_LIST if schemaloc)
CYBOX_NS_TO_SCHEMALOCATION ==
    [ns \in {t[1] : t \in {u \in NS_LIST : u[3] # ""}} |->
        (CHOOSE t \in NS_LIST : t[1] = ns)[3]]

\* dict((ns, alias) for (ns, alias, _) in NS_LIST)
DEFAULT_CYBOX_NAMESPACES ==
    [ns \in {t[1] : t \in NS_LIST} |-> (CHOOSE t \in NS_LIST : t[1] = ns)[2]]

\* dict(chain(cybox, xml, stix, ext)): a later table replaces an earlier entry.
\* The python-maec block that would extend the table is skipped when maec
\* is not installed (ignored(ImportError)), which is the build modelled.
DEFAULT_STIX_NAMESPACES ==
    DEFAULT_EXT_TO_PREFIX @@ DEFAULT_STIX_NS_TO_PREFIX @@ XML_NAMESPACES
        @@ DEFAULT_CYBOX_NAMESPACES

\* tuple(DEFAULT_STIX_NAMESPACES.keys()), used for membership only
DEFAULT_STIX_NAMESPACES_TUPLE == DOMAIN DEFAULT_STIX_NAMESPACES

\* dict(chain(stix, ext, cybox))
DEFAULT_STIX_SCHEMALOCATIONS ==
    CYBOX_NS_TO_SCHEMALOCATION @@ EXT_NS_TO_SCHEMALOCATION
        @@ STIX_NS_TO_SCHEMALOCATION

----------------------------------------------------------------------------
\* Entity types (the classes the registry inspects) and entity instances

\* A str attribute is "" when the class does not define it or defines it as
\* None: the code tests these attributes by truth value only.  _XSI_TYPE is
\* kept as the sequence of its fragments and ":" separators, so that split
\* is computed.
Klass(entity, namespace, xsi_ns, xsi_type) ==
    [entity |-> entity, _namespace |-> namespace, _XSI_NS |-> xsi_ns,
     _XSI_TYPE |-> xsi_type]

NS_A == "http://vendor.example/a-1"

NS_B == "http://vendor.example/b-1"

NS_C == "http://vendor.example/c-1"

\* getattr(klass, ...) for the classes of the runs; object and the two Entity
\* base classes are in every __mro__.
Klasses ==
       ("object" :> Klass(FALSE, "", "", <<>>))
    @@ ("stix.Entity" :> Klass(TRUE, "", "", <<>>))
    @@ ("Indicator" :> Klass(TRUE, "http://stix.mitre.org/Indicator-2", "",
                             <<"indicator", ":", "IndicatorType">>))
    @@ ("Campaign" :> Klass(TRUE, "http://stix.mitre.org/Campaign-1", "", <<>>))
    @@ ("TTP" :> Klass(TRUE, "http://stix.mitre.org/TTP-1", "",
                       <<"ttp", ":", "TTPType", ":", "x">>))
    @@ ("VendorA" :> Klass(TRUE, NS_A, "x", <<"y", ":", "AType">>))
    @@ ("VendorB" :> Klass(TRUE, NS_B, "x", <<>>))
    @@ ("VendorC" :> Klass(TRUE, NS_C, "", <<"CType">>))

\* entity.__class__.__mro__
MRO(klass) == {klass, "stix.Entity", "object"}

\* An entity instance; has_input tells whether it was parsed from a document
\* and so carries __input_namespaces__ and __input_schemalocations__.
Entity(klass, has_input, nss, locs) ==
    [klass |-> klass, has_input |-> has_input,
     __input_namespaces__ |-> nss, __input_schemalocations__ |-> locs]

LOC_STIX_INPUT == "http://input.example/stix_core.xsd"

LOC_A_INPUT == "http://input.example/a.xsd"

LOC_STIX_CALLER == "http://caller.example/stix_core.xsd"

LOC_A_CALLER == "http://caller.example/a.xsd"

\* The entities a run collects.
Entities ==
       ("indicator" :> Entity("Indicator", FALSE, EmptyDict, EmptyDict))
    @@ ("campaign" :> Entity("Campaign", FALSE, EmptyDict, EmptyDict))
    @@ ("ttp" :> Entity("TTP", FALSE, EmptyDict, EmptyDict))
    @@ ("vendorA" :> Entity("VendorA", FALSE, EmptyDict, EmptyDict))
    @@ ("vendorB" :> Entity("VendorB", FALSE, EmptyDict, EmptyDict))
    @@ ("vendorC" :> Entity("VendorC", FALSE, EmptyDict, EmptyDict))
    @@ ("parsedSample" :> Entity("Indicator", TRUE,
            ("example" :> "http://example.com/")
                @@ ("stixx" :> "http://stix.mitre.org/stix-1"),
            ("http://stix.mitre.org/stix-1" :> LOC_STIX_INPUT)))
    @@ ("parsedVendor" :> Entity("Indicator", TRUE,
            ("x" :> NS_B) @@ ("c" :> NS_C)
                @@ ("cybox" :> "http://stix.mitre.org/stix-1"),
            (NS_A :> LOC_A_INPUT)))
    \* a document whose bindings are held as namespace -> prefix, the form
    \* _fix_example_namespace reads
    @@ ("parsedSwapped" :> Entity("Indicator", TRUE,
            ("http://example.com/" :> "example"), EmptyDict))

\* The (alias, namespace) pairs the idgen module can be configured with: the
\* library default, one whose alias is a baseline prefix, and the default
\* with its two strings exchanged (the form _fix_example_namespace reads).
IdNamespaces ==
    { [alias |-> "example", ns |-> "http://example.com"],
      [alias |-> "stix", ns |-> "http://example.com"],
      [alias |-> "http://example.com", ns |-> "example"] }

\* The ns_dict arguments (namespace -> prefix) passed to finalize.
NsDictArgs ==
    { None,
      Dict(NS_A :> "x"),
      Dict((NS_A :> "q") @@ (NS_B :> "q")) }

\* The schemaloc_dict arguments (namespace -> location) passed to finalize.
SchemalocDictArgs ==
    { None,
      Dict(("http://stix.mitre.org/stix-1" :> LOC_STIX_CALLER)
            @@ (NS_A :> LOC_A_CALLER)) }

----------------------------------------------------------------------------
\* The registries as one value, so that the methods are operators on it

World ==
    [collected_namespaces |-> collected_namespaces, none_key |-> none_key,
     set_objects |-> set_objects, input_namespaces |-> input_namespaces,
     input_schemalocs |-> input_schemalocs,
     collected_classes |-> collected_classes,
     finalized_namespaces |-> finalized_namespaces,
     finalized_schemalocs |-> finalized_schemalocs]

\* NamespaceInfo.__init__ for every registry
__init__ ==
    [collected_namespaces |-> [r \in Regs |-> EmptyDict],
     none_key |-> [r \in Regs |-> r],
     set_objects |-> [r \in Regs |-> {}],
     input_namespaces |-> [r \in Regs |-> EmptyDict],
     input_schemalocs |-> [r \in Regs |-> EmptyDict],
     collected_classes |-> [r \in Regs |-> {}],
     finalized_namespaces |-> [r \in Regs |-> None],
     finalized_schemalocs |-> [r \in Regs |-> None]]

get_id_namespace_alias == id_namespace.alias

get_id_namespace == id_namespace.ns

\* The exception object; the message string is left out.  The trailing comma
\* of "self.source_ns = source_ns," makes that attribute a one-element tuple.
DuplicatePrefixError(prefix, source_ns, dest_ns) ==
    [type |-> "DuplicatePrefixError", prefix |-> PyStr(prefix),
     source_ns |-> PyTuple1(PyStr(source_ns)), dest_ns |-> PyStr(dest_ns)]

\* The KeyError a failed dict lookup raises; key is "None" for the None key.
KeyError(key) == [type |-> "KeyError", key |-> key]

\* A call's outcome: the registries after it, the exception it raised (or
\* None), the names it passed to warnings.warn.
Outcome(w, raised, warnings) ==
    [w |-> w, raised |-> raised, warnings |-> warnings]

\* NamespaceInfo.update
update(w, self, ns_info) ==
    [w EXCEPT
        !.collected_namespaces[self] =
            DictUpdate(@, w.collected_namespaces[ns_info]),
        !.none_key[self] =
            IF w.none_key[ns_info] # NoKey THEN w.none_key[ns_info] ELSE @,
        !.input_namespaces[self] = DictUpdate(@, w.input_namespaces[ns_info]),
        !.input_schemalocs[self] = DictUpdate(@, w.input_schemalocs[ns_info])]

\* collect changed to bind the explicit prefix of the entity's class as
\* soon as the entity is collected.
collect_deriving_alias(w, self, entity) ==
    [w EXCEPT
        !.collected_classes[self] = @ \cup MRO(entity.klass),
        !.collected_namespaces[self] =
            IF Klasses[entity.klass]._XSI_NS # ""
            THEN SetItem(@, Klasses[entity.klass]._XSI_NS,
                         Klasses[entity.klass]._namespace)
            ELSE @,
        !.input_namespaces[self] =
            IF entity.has_input
            THEN DictUpdate(@, entity.__input_namespaces__) ELSE @,
        !.input_schemalocs[self] =
            IF entity.has_input
            THEN DictUpdate(@, entity.__input_schemalocations__) ELSE @]

\* NamespaceInfo.collect
collect(w, self, entity) ==
    [w EXCEPT
        !.collected_classes[self] = @ \cup MRO(entity.klass),
        !.input_namespaces[self] =
            IF entity.has_input
            THEN DictUpdate(@, entity.__input_namespaces__) ELSE @,
        !.input_schemalocs[self] =
            IF entity.has_input
            THEN DictUpdate(@, entity.__input_schemalocations__) ELSE @]

\* str.split(":") on a string given as its fragments and ":" separators
RECURSIVE SplitFrom(_, _, _)
SplitFrom(tokens, i, cur) ==
    IF i > Len(tokens) THEN <<cur>>
    ELSE IF tokens[i] = ":" THEN <<cur>> \o SplitFrom(tokens, i + 1, "")
    ELSE SplitFrom(tokens, i + 1, cur \o tokens[i])

split(tokens) == SplitFrom(tokens, 1, "")

\* ParseKlass changed to look at the qualified name before the explicit
\* prefix.
ParseKlass_qname_first(klass) ==
    LET k == Klasses[klass]
        ns == k._namespace
        typeinfo == split(k._XSI_TYPE)
    IN  IF ~k.entity \/ ns = "" THEN [kind |-> "skip", alias |-> "", ns |-> ""]
        ELSE IF k._XSI_TYPE # <<>> /\ Len(typeinfo) = 2
            THEN [kind |-> "alias", alias |-> typeinfo[1], ns |-> ns]
        ELSE IF k._XSI_NS # ""
            THEN [kind |-> "alias", alias |-> k._XSI_NS, ns |-> ns]
        ELSE [kind |-> "no_alias", alias |-> "", ns |-> ns]

\* One iteration of the loop of _parse_collected_classes: what klass
\* contributes ("skip": nothing, "alias": a binding, "no_alias": its
\* namespace goes to the set under the None key).
ParseKlass(klass) ==
    LET k == Klasses[klass]
        ns == k._namespace
        typeinfo == split(k._XSI_TYPE)
    IN  IF ~k.entity \/ ns = "" THEN [kind |-> "skip", alias |-> "", ns |-> ""]
        ELSE IF k._XSI_NS # ""
            THEN [kind |-> "alias", alias |-> k._XSI_NS, ns |-> ns]
        ELSE IF k._XSI_TYPE = <<>>
            THEN [kind |-> "no_alias", alias |-> "", ns |-> ns]
        ELSE IF Len(typeinfo) = 2
            THEN [kind |-> "alias", alias |-> typeinfo[1], ns |-> ns]
        ELSE [kind |-> "no_alias", alias |-> "", ns |-> ns]

\* NamespaceInfo._parse_collected_classes.  The classes are visited in set
\* order and a binding replaces an earlier one of the same alias, so with two
\* classes on one alias either namespace may be the one left.
_parse_collected_classes(w, self) ==
    IF w.none_key[self] = NoKey
    THEN {Outcome(w, KeyError("None"), {})}
    ELSE
        LET parsed == {ParseKlass(k) : k \in w.collected_classes[self]}
            pairs == {<<d.alias, d.ns>> : d \in {x \in parsed : x.kind = "alias"}}
            aliases == {p[1] : p \in pairs}
            unaliased == {d.ns : d \in {x \in parsed : x.kind = "no_alias"}}
            ref == w.none_key[self]
            kept == {g \in [aliases -> {p[2] : p \in pairs}] :
                        \A a \in aliases : <<a, g[a]>> \in pairs}
        IN  {Outcome([w EXCEPT !.collected_namespaces[self] = g @@ @,
                               !.set_objects[ref] = @ \cup unaliased],
                     None, {}) : g \in kept}

\* NamespaceInfo._fix_example_namespace: input_namespaces after the call
\* (the deletion is made in the registry's own dict).
_fix_example_namespace(ns_dict, input_nss) ==
    LET sample_ns == "http://example.com/"
        api_ns == "http://example.com"
        prefix == "example"
        dup_example ==
            /\ sample_ns \in DOMAIN input_nss /\ input_nss[sample_ns] = prefix
            /\ api_ns \in DOMAIN ns_dict /\ ns_dict[api_ns] = prefix
    IN  IF dup_example THEN DelItem(input_nss, "http://example.com/")
        ELSE input_nss

\* NamespaceInfo._check_namespace_alias: None, or the exception raised
_check_namespace_alias(ns_dict, prefix, namespace) ==
    IF prefix \notin DOMAIN ns_dict \/ ns_dict[prefix] = namespace
    THEN None
    ELSE DuplicatePrefixError(prefix, ns_dict[prefix], namespace)

\* The loop "for alias, ns in pairs: check(d, alias, ns); d[alias] = ns".
\* When the pair p is reached, d is as it was, or holds a pair of the same
\* alias inserted before p (only when d had no entry for the alias).
\* LoopErrors is the set of exceptions some iteration order raises first.
LoopErrors(d, pairs) ==
    LET before(p) ==
            {d} \cup {SetItem(d, q[1], q[2]) :
                        q \in {r \in pairs : r[1] \notin DOMAIN d /\ r[1] = p[1]}}
    IN  UNION {{_check_namespace_alias(m, p[1], p[2]) : m \in before(p)} :
                    p \in pairs} \ {None}

\* d after that loop, when no check failed
LoopResult(d, pairs) ==
    [a \in DOMAIN d \cup {p[1] : p \in pairs} |->
        IF \E p \in pairs : p[1] = a
        THEN (CHOOSE p \in pairs : p[1] = a)[2] ELSE d[a]]

\* dict((alias, ns) for ns, alias in ns_dict.iteritems()): with two
\* namespaces on one alias, either may be the one left.
Inverted(ns_dict) ==
    {f \in [Values(ns_dict) -> DOMAIN ns_dict] :
        \A a \in DOMAIN f : ns_dict[f[a]] = a}

\* _finalize_namespaces changed to check-and-insert every parsed binding,
\* those of the STIX/CybOX/XML namespaces too.
_finalize_namespaces_no_skip(w, self, ns_dict) ==
    LET copies == IF Truthy(ns_dict) THEN Inverted(ns_dict.items)
                  ELSE {EmptyDict}
        \* baseline namespaces, then d_ns[id_ns_alias] = id_ns
        d_ns1 == SetItem(_BASELINE_NAMESPACES, get_id_namespace_alias,
                         get_id_namespace)
        inputs == _fix_example_namespace(d_ns1, w.input_namespaces[self])
        w1 == [w EXCEPT !.input_namespaces[self] = inputs]
        \* all the parsed namespaces
        pairs3 == Items(inputs)
        errors3 == LoopErrors(d_ns1, pairs3)
        d_ns3 == LoopResult(d_ns1, pairs3)
        \* self._collected_namespaces.pop(None, ())
        no_alias == IF w.none_key[self] = NoKey THEN {}
                    ELSE w.set_objects[w.none_key[self]]
        w2 == [w1 EXCEPT !.none_key[self] = NoKey]
        unknown == {ns \in no_alias : ns \notin DOMAIN DEFAULT_STIX_NAMESPACES}
        pairs4 == {<<DEFAULT_STIX_NAMESPACES[ns], ns>> : ns \in no_alias \ unknown}
        errors4 == {KeyError(ns) : ns \in unknown} \cup LoopErrors(d_ns3, pairs4)
        d_ns4 == LoopResult(d_ns3, pairs4)
        \* the collected namespaces that have an alias
        pairs5 == Items(w.collected_namespaces[self])
        errors5 == LoopErrors(d_ns4, pairs5)
        d_ns5 == LoopResult(d_ns4, pairs5)
        \* the overlay on the copy of the caller's ns_dict
        final(copy) ==
            IF LoopErrors(copy, Items(d_ns5)) # {}
            THEN {[w |-> w2, raised |-> e, value |-> EmptyDict] :
                    e \in LoopErrors(copy, Items(d_ns5))}
            ELSE {[w |-> w2, raised |-> None,
                   value |-> LoopResult(copy, Items(d_ns5))]}
    IN  IF errors3 # {}
        THEN {[w |-> w1, raised |-> e, value |-> EmptyDict] : e \in errors3}
        ELSE IF errors4 # {}
        THEN {[w |-> w2, raised |-> e, value |-> EmptyDict] : e \in errors4}
        ELSE IF errors5 # {}
        THEN {[w |-> w2, raised |-> e, value |-> EmptyDict] : e \in errors5}
        ELSE UNION {final(copy) : copy \in copies}

\* NamespaceInfo._finalize_namespaces: the outcomes, each with the registries
\* as the call leaves them and, when nothing was raised, the returned dict
\* in the field value.
_finalize_namespaces(w, self, ns_dict) ==
    LET copies == IF Truthy(ns_dict) THEN Inverted(ns_dict.items)
                  ELSE {EmptyDict}
        \* baseline namespaces, then d_ns[id_ns_alias] = id_ns
        d_ns1 == SetItem(_BASELINE_NAMESPACES, get_id_namespace_alias,
                         get_id_namespace)
        inputs == _fix_example_namespace(d_ns1, w.input_namespaces[self])
        w1 == [w EXCEPT !.input_namespaces[self] = inputs]
        \* the parsed namespaces that are not STIX/CybOX/XML namespaces
        pairs3 == {p \in Items(inputs) : p[2] \notin DEFAULT_STIX_NAMESPACES_TUPLE}
        errors3 == LoopErrors(d_ns1, pairs3)
        d_ns3 == LoopResult(d_ns1, pairs3)
        \* self._collected_namespaces.pop(None, ())
        no_alias == IF w.none_key[self] = NoKey THEN {}
                    ELSE w.set_objects[w.none_key[self]]
        w2 == [w1 EXCEPT !.none_key[self] = NoKey]
        unknown == {ns \in no_alias : ns \notin DOMAIN DEFAULT_STIX_NAMESPACES}
        pairs4 == {<<DEFAULT_STIX_NAMESPACES[ns], ns>> : ns \in no_alias \ unknown}
        errors4 == {KeyError(ns) : ns \in unknown} \cup LoopErrors(d_ns3, pairs4)
        d_ns4 == LoopResult(d_ns3, pairs4)
        \* the collected namespaces that have an alias
        pairs5 == Items(w.collected_namespaces[self])
        errors5 == LoopErrors(d_ns4, pairs5)
        d_ns5 == LoopResult(d_ns4, pairs5)
        \* the overlay on the copy of the caller's ns_dict
        final(copy) ==
            IF LoopErrors(copy, Items(d_ns5)) # {}
            THEN {[w |-> w2, raised |-> e, value |-> EmptyDict] :
                    e \in LoopErrors(copy, Items(d_ns5))}
            ELSE {[w |-> w2, raised |-> None,
                   value |-> LoopResult(copy, Items(d_ns5))]}
    IN  IF errors3 # {}
        THEN {[w |-> w1, raised |-> e, value |-> EmptyDict] : e \in errors3}
        ELSE IF errors4 # {}
        THEN {[w |-> w2, raised |-> e, value |-> EmptyDict] : e \in errors4}
        ELSE IF errors5 # {}
        THEN {[w |-> w2, raised |-> e, value |-> EmptyDict] : e \in errors5}
        ELSE UNION {final(copy) : copy \in copies}

\* _finalize_schemalocs changed to let the parsed locations replace those of
\* schemaloc_dict (dict.update in place of the test of lines 259-262).
_finalize_schemalocs_input_first(w, self, schemaloc_dict) ==
    LET copy == IF Truthy(schemaloc_dict) THEN schemaloc_dict.items
                ELSE EmptyDict
        id_ns == get_id_namespace
        seeded == w.input_schemalocs[self] @@ copy
        keys == DOMAIN w.finalized_namespaces[self].items
        defaults == {ns \in keys : ns \in DOMAIN DEFAULT_STIX_SCHEMALOCATIONS}
        warned == {ns \in keys \ defaults :
                     /\ ns \notin DOMAIN seeded
                     /\ ~(ns = id_ns \/ ns \in DOMAIN XML_NAMESPACES)}
    IN  [value |-> [ns \in DOMAIN seeded \cup defaults |->
                       IF ns \in defaults THEN DEFAULT_STIX_SCHEMALOCATIONS[ns]
                       ELSE seeded[ns]],
         warnings |-> warned]

\* NamespaceInfo._finalize_schemalocs: the returned dict and the names
\* warned about.  The loop runs over the keys of self.finalized_namespaces.
_finalize_schemalocs(w, self, schemaloc_dict) ==
    LET copy == IF Truthy(schemaloc_dict) THEN schemaloc_dict.items
                ELSE EmptyDict
        id_ns == get_id_namespace
        \* parsed locations, not replacing the schemaloc_dict values
        seeded == copy @@ w.input_schemalocs[self]
        keys == DOMAIN w.finalized_namespaces[self].items
        defaults == {ns \in keys : ns \in DOMAIN DEFAULT_STIX_SCHEMALOCATIONS}
        warned == {ns \in keys \ defaults :
                     /\ ns \notin DOMAIN seeded
                     /\ ~(ns = id_ns \/ ns \in DOMAIN XML_NAMESPACES)}
    IN  [value |-> [ns \in DOMAIN seeded \cup defaults |->
                       IF ns \in defaults THEN DEFAULT_STIX_SCHEMALOCATIONS[ns]
                       ELSE seeded[ns]],
         warnings |-> warned]

\* The caller's ns_dict and schemaloc_dict after a call; shared holds the
\* names of those that are also the object of a finalized attribute.
ArgsAfter(ns_dict, schemaloc_dict, shared) ==
    [ns_dict |-> ns_dict, schemaloc_dict |-> schemaloc_dict, shared |-> shared]

\* ns_dict_object changed to keep the caller's dict when one was passed
\* ("ns_dict = ns_dict or {}" in place of the copy).
ns_dict_object_in_place(ns_dict) == IF Truthy(ns_dict) THEN "caller" ELSE "new"

\* The dict object the name ns_dict refers to after lines 181-184 of
\* _finalize_namespaces, the one line 232 writes and line 238 returns: a new
\* dict in both branches ("copy": built from the caller's; "new": {}), never
\* the dict of the caller ("caller").
ns_dict_object(ns_dict) == IF Truthy(ns_dict) THEN "copy" ELSE "new"

\* The dict object the name schemaloc_dict refers to after lines 243-246 of
\* _finalize_schemalocs, the one lines 262 and 269 write and 278 returns.
schemaloc_dict_object(schemaloc_dict) ==
    IF Truthy(schemaloc_dict) THEN "copy" ELSE "new"

\* The caller's two dicts after a finalize call of outcome out: each is as
\* it was passed unless it is the object the call wrote and returned.
finalize_args(self, ns_dict, schemaloc_dict, out) ==
    LET written_ns == ns_dict_object(ns_dict) = "caller"
        written_locs == schemaloc_dict_object(schemaloc_dict) = "caller"
    IN  ArgsAfter(
            IF written_ns /\ out.raised = None
            THEN out.w.finalized_namespaces[self] ELSE ns_dict,
            IF written_locs /\ out.raised = None
            THEN out.w.finalized_schemalocs[self] ELSE schemaloc_dict,
            {n \in {"ns_dict"} : written_ns}
                \cup {n \in {"schemaloc_dict"} : written_locs})

\* finalize changed to store what _finalize_namespaces had built also when it
\* raised (the final maps written before the merge is known to succeed).
finalize_publishing_on_error(w, self, ns_dict, schemaloc_dict) ==
    UNION {
        IF parsed.raised # None THEN {parsed}
        ELSE {
            LET w3 == [nss.w EXCEPT
                         !.finalized_namespaces[self] = Dict(nss.value)]
                locs == _finalize_schemalocs(w3, self, schemaloc_dict)
            IN  IF nss.raised # None THEN Outcome(w3, nss.raised, {})
                ELSE Outcome([w3 EXCEPT !.finalized_schemalocs[self] =
                                            Dict(locs.value)],
                             None, locs.warnings)
            : nss \in _finalize_namespaces(parsed.w, self, ns_dict)}
        : parsed \in _parse_collected_classes(w, self)}

\* finalize changed to seed the schema locations in the registry's own
\* _input_schemalocs (no copy of the merged locations is made).
finalize_seeding_in_place(w, self, ns_dict, schemaloc_dict) ==
    UNION {
        IF parsed.raised # None THEN {parsed}
        ELSE UNION {
            IF nss.raised # None THEN {Outcome(nss.w, nss.raised, {})}
            ELSE
                LET w3 == [nss.w EXCEPT
                             !.finalized_namespaces[self] = Dict(nss.value)]
                    locs == _finalize_schemalocs(w3, self, schemaloc_dict)
                IN  {Outcome([w3 EXCEPT !.finalized_schemalocs[self] =
                                            Dict(locs.value),
                                        !.input_schemalocs[self] = locs.value],
                             None, locs.warnings)}
            : nss \in _finalize_namespaces(parsed.w, self, ns_dict)}
        : parsed \in _parse_collected_classes(w, self)}

\* NamespaceInfo.finalize: the outcomes of one call
finalize(w, self, ns_dict, schemaloc_dict) ==
    UNION {
        IF parsed.raised # None THEN {parsed}
        ELSE UNION {
            IF nss.raised # None THEN {Outcome(nss.w, nss.raised, {})}
            ELSE
                LET w3 == [nss.w EXCEPT
                             !.finalized_namespaces[self] = Dict(nss.value)]
                    locs == _finalize_schemalocs(w3, self, schemaloc_dict)
                IN  {Outcome([w3 EXCEPT !.finalized_schemalocs[self] =
                                            Dict(locs.value)],
                             None, locs.warnings)}
            : nss \in _finalize_namespaces(parsed.w, self, ns_dict)}
        : parsed \in _parse_collected_classes(w, self)}

----------------------------------------------------------------------------
\* NamespaceParser: the rendering of the finalized maps

\* The strings of the runs (prefixes, namespaces, schema locations) in the
\* order of Python's str comparison, by which sorted() orders them.
StrOrder ==
    <<
      "AddressObj",
      "TOUMarking",
      "c",
      "campaign",
      "capec",
      "ciqIdentity",
      "coa",
      "cvrf",
      "cybox",
      "cyboxCommon",
      "cyboxVocabs",
      "ds",
      "et",
      "example",
      "genericStructuredCOA",
      "genericTM",
      "http://caller.example/a.xsd",
      "http://caller.example/stix_core.xsd",
      "http://capec.mitre.org/capec-2",
      "http://cybox.mitre.org/XMLSchema/common/2.1/cybox_common.xsd",
      "http://cybox.mitre.org/XMLSchema/core/2.1/cybox_core.xsd",
      "http://cybox.mitre.org/XMLSchema/default_vocabularies/2.1/cybox_default_vocabularies.xsd",
      "http://cybox.mitre.org/XMLSchema/objects/Address/2.1/Address_Object.xsd",
      "http://cybox.mitre.org/common-2",
      "http://cybox.mitre.org/cybox-2",
      "http://cybox.mitre.org/default_vocabularies-2",
      "http://cybox.mitre.org/objects#AddressObject-2",
      "http://data-marking.mitre.org/Marking-1",
      "http://data-marking.mitre.org/extensions/MarkingStructure#Simple-1",
      "http://data-marking.mitre.org/extensions/MarkingStructure#TLP-1",
      "http://data-marking.mitre.org/extensions/MarkingStructure#Terms_Of_Use-1",
      "http://example.com",
      "http://example.com/",
      "http://input.example/a.xsd",
      "http://input.example/stix_core.xsd",
      "http://maec.mitre.org/XMLSchema/maec-package-2",
      "http://oval.mitre.org/XMLSchema/oval-definitions-5",
      "http://oval.mitre.org/XMLSchema/oval-variables-5",
      "http://schemas.mandiant.com/2010/ioc",
      "http://schemas.mandiant.com/2010/ioc/TR/",
      "http://stix.mitre.org/Campaign-1",
      "http://stix.mitre.org/CourseOfAction-1",
      "http://stix.mitre.org/ExploitTarget-1",
      "http://stix.mitre.org/Incident-1",
      "http://stix.mitre.org/Indicator-2",
      "http://stix.mitre.org/TTP-1",
      "http://stix.mitre.org/ThreatActor-1",
      "http://stix.mitre.org/XMLSchema/campaign/1.1.1/campaign.xsd",
      "http://stix.mitre.org/XMLSchema/common/1.1.1/stix_common.xsd",
      "http://stix.mitre.org/XMLSchema/core/1.1.1/stix_core.xsd",
      "http://stix.mitre.org/XMLSchema/course_of_action/1.1.1/course_of_action.xsd",
      "http://stix.mitre.org/XMLSchema/data_marking/1.1.1/data_marking.xsd",
      "http://stix.mitre.org/XMLSchema/default_vocabularies/1.1.1/stix_default_vocabularies.xsd",
      "http://stix.mitre.org/XMLSchema/exploit_target/1.1.1/exploit_target.xsd",
      "http://stix.mitre.org/XMLSchema/extensions/address/ciq_3.0/1.1.1/ciq_3.0_address.xsd",
      "http://stix.mitre.org/XMLSchema/extensions/attack_pattern/capec_2.7/1.0.1/capec_2.7_attack_pattern.xsd",
      "http://stix.mitre.org/XMLSchema/extensions/identity/ciq_3.0/1.1.1/ciq_3.0_identity.xsd",
      "http://stix.mitre.org/XMLSchema/extensions/malware/maec_4.1/1.0.1/maec_4.1_malware.xsd",
      "http://stix.mitre.org/XMLSchema/extensions/marking/simple/1.1.1/simple_marking.xsd",
      "http://stix.mitre.org/XMLSchema/extensions/marking/terms_of_use/1.0.1/terms_of_use_marking.xsd",
      "http://stix.mitre.org/XMLSchema/extensions/marking/tlp/1.1.1/tlp_marking.xsd",
      "http://stix.mitre.org/XMLSchema/extensions/structured_coa/generic/1.1.1/generic_structured_coa.xsd",
      "http://stix.mitre.org/XMLSchema/extensions/test_mechanism/generic/1.1.1/generic_test_mechanism.xsd",
      "http://stix.mitre.org/XMLSchema/extensions/test_mechanism/open_ioc_2010/1.1.1/open_ioc_2010_test_mechanism.xsd",
      "http://stix.mitre.org/XMLSchema/extensions/test_mechanism/oval_5.10/1.1.1/oval_5.10_test_mechanism.xsd",
      "http://stix.mitre.org/XMLSchema/extensions/test_mechanism/snort/1.1.1/snort_test_mechanism.xsd",
      "http://stix.mitre.org/XMLSchema/extensions/test_mechanism/yara/1.1.1/yara_test_mechanism.xsd",
      "http://stix.mitre.org/XMLSchema/extensions/vulnerability/cvrf_1.1/1.1.1/cvrf_1.1_vulnerability.xsd",
      "http://stix.mitre.org/XMLSchema/external/oasis_ciq_3.0/xAL.xsd",
      "http://stix.mitre.org/XMLSchema/external/oasis_ciq_3.0/xNL.xsd",
      "http://stix.mitre.org/XMLSchema/external/oasis_ciq_3.0/xPIL.xsd",
      "http://stix.mitre.org/XMLSchema/incident/1.1.1/incident.xsd",
      "http://stix.mitre.org/XMLSchema/indicator/2.1.1/indicator.xsd",
      "http://stix.mitre.org/XMLSchema/threat_actor/1.1.1/threat_actor.xsd",
      "http://stix.mitre.org/XMLSchema/ttp/1.1.1/ttp.xsd",
      "http://stix.mitre.org/common-1",
      "http://stix.mitre.org/default_vocabularies-1",
      "http://stix.mitre.org/extensions/AP#CAPEC2.7-1",
      "http://stix.mitre.org/extensions/Address#CIQAddress3.0-1",
      "http://stix.mitre.org/extensions/Identity#CIQIdentity3.0-1",
      "http://stix.mitre.org/extensions/Malware#MAEC4.1-1",
      "http://stix.mitre.org/extensions/StructuredCOA#Generic-1",
      "http://stix.mitre.org/extensions/TestMechanism#Generic-1",
      "http://stix.mitre.org/extensions/TestMechanism#OVAL5.10-1",
      "http://stix.mitre.org/extensions/TestMechanism#OpenIOC2010-1",
      "http://stix.mitre.org/extensions/TestMechanism#Snort-1",
      "http://stix.mitre.org/extensions/TestMechanism#YARA-1",
      "http://stix.mitre.org/extensions/Vulnerability#CVRF-1",
      "http://stix.mitre.org/stix-1",
      "http://vendor.example/a-1",
      "http://vendor.example/b-1",
      "http://vendor.example/c-1",
      "http://www.icasi.org/CVRF/schema/cvrf/1.1",
      "http://www.w3.org/1999/xlink",
      "http://www.w3.org/2000/09/xmldsig#",
      "http://www.w3.org/2001/XMLSchema",
      "http://www.w3.org/2001/XMLSchema-instance",
      "incident",
      "indicator",
      "ioc",
      "ioc-tr",
      "maecPackage",
      "marking",
      "oval-def",
      "oval-var",
      "q",
      "simpleMarking",
      "snortTM",
      "stix",
      "stix-capec",
      "stix-ciqaddress",
      "stix-cvrf",
      "stix-maec",
      "stix-openioc",
      "stix-oval",
      "stixCommon",
      "stixVocabs",
      "stixx",
      "ta",
      "tlpMarking",
      "ttp",
      "urn:oasis:names:tc:ciq:xal:3",
      "urn:oasis:names:tc:ciq:xnl:3",
      "urn:oasis:names:tc:ciq:xpil:3",
      "x",
      "xal",
      "xlink",
      "xnl",
      "xpil",
      "xs",
      "xsi",
      "y",
      "yaraTM"
    >>

\* The place of a string in StrOrder
StrRank == [s \in {StrOrder[i] : i \in DOMAIN StrOrder} |->
               CHOOSE i \in DOMAIN StrOrder : StrOrder[i] = s]

\* a < b for two str
StrLess(a, b) == StrRank[a] < StrRank[b]

\* p < q for two (str, str) tuples: by the first items, then by the second
TupleLess(p, q) ==
    StrLess(p[1], q[1]) \/ (p[1] = q[1] /\ StrLess(p[2], q[2]))

\* sorted(pairs): the list of the tuples of a set in ascending order
RECURSIVE sorted(_)
sorted(pairs) ==
    IF pairs = {} THEN <<>>
    ELSE LET least == CHOOSE p \in pairs :
                          \A q \in pairs \ {p} : TupleLess(p, q)
         IN  <<least>> \o sorted(pairs \ {least})

\* sep.join(strs)
RECURSIVE join(_, _)
join(sep, strs) ==
    IF strs = <<>> THEN ""
    ELSE IF Len(strs) = 1 THEN strs[1]
    ELSE strs[1] \o sep \o join(sep, Tail(strs))

\* NamespaceParser.get_xmlns_str: each (key, value) pair of ns_dict is
\* unpacked as "ns, alias" and formatted 'xmlns:%s="%s"' % (alias, ns)
get_xmlns_str(ns_dict) ==
    LET pairs == sorted(Items(ns_dict))
    IN  join("\n\t", [i \in DOMAIN pairs |->
                         LET ns == pairs[i][1]
                             alias == pairs[i][2]
                         IN  "xmlns:" \o alias \o "=\"" \o ns \o "\""])

\* get_schemaloc_str changed to build the attribute for an empty map too
\* (the test of line 329 left out).
get_schemaloc_str_no_empty_case(schemaloc_dict) ==
    LET pairs == sorted(Items(schemaloc_dict))
    IN  "xsi:schemaLocation=\"\n\t"
            \o join("\n\t", [i \in DOMAIN pairs |->
                                pairs[i][1] \o " " \o pairs[i][2]])
            \o "\""

\* NamespaceParser.get_schemaloc_str
get_schemaloc_str(schemaloc_dict) ==
    IF schemaloc_dict = EmptyDict THEN ""
    ELSE
        LET schemaloc_str_start == "xsi:schemaLocation=\"\n\t"
            schemaloc_str_end == "\""
            pairs == sorted(Items(schemaloc_dict))
            schemaloc_str_content ==
                join("\n\t", [i \in DOMAIN pairs |->
                                 LET ns == pairs[i][1]
                                     loc == pairs[i][2]
                                 IN  ns \o " " \o loc])
        IN  schemaloc_str_start \o schemaloc_str_content \o schemaloc_str_end

----------------------------------------------------------------------------
\* The state machine: calls made on the registries

\* The record of a call, kept in last
Call(op, self, arg, ns_dict, schemaloc_dict, raised, warnings) ==
    [op |-> op, self |-> self, arg |-> arg, ns_dict |-> ns_dict,
     schemaloc_dict |-> schemaloc_dict, raised |-> raised,
     warnings |-> warnings]

\* The registries become w
Becomes(w) ==
    /\ collected_namespaces' = w.collected_namespaces
    /\ none_key' = w.none_key
    /\ set_objects' = w.set_objects
    /\ input_namespaces' = w.input_namespaces
    /\ input_schemalocs' = w.input_schemalocs
    /\ collected_classes' = w.collected_classes
    /\ finalized_namespaces' = w.finalized_namespaces
    /\ finalized_schemalocs' = w.finalized_schemalocs

Init ==
    /\ collected_namespaces = __init__.collected_namespaces
    /\ none_key = __init__.none_key
    /\ set_objects = __init__.set_objects
    /\ input_namespaces = __init__.input_namespaces
    /\ input_schemalocs = __init__.input_schemalocs
    /\ collected_classes = __init__.collected_classes
    /\ finalized_namespaces = __init__.finalized_namespaces
    /\ finalized_schemalocs = __init__.finalized_schemalocs
    /\ id_namespace \in IdNamespaces
    /\ last = Call("init", "", "", None, None, None, {})
    /\ finalize_calls = [r \in Regs |-> 0]
    /\ ncalls = 0
    /\ returned = None
    /\ args_after = ArgsAfter(None, None, {})

Collect ==
    \E self \in Regs, e \in DOMAIN Entities :
        /\ ncalls < MaxCalls
        /\ Becomes(collect(World, self, Entities[e]))
        /\ last' = Call("collect", self, e, None, None, None, {})
        /\ ncalls' = ncalls + 1
        /\ returned' = None
        /\ args_after' = ArgsAfter(None, None, {})
        /\ UNCHANGED <<id_namespace, finalize_calls>>

Update ==
    \E self \in Regs, ns_info \in Regs :
        /\ ncalls < MaxCalls
        /\ self # ns_info
        /\ Becomes(update(World, self, ns_info))
        /\ last' = Call("update", self, ns_info, None, None, None, {})
        /\ ncalls' = ncalls + 1
        /\ returned' = None
        /\ args_after' = ArgsAfter(None, None, {})
        /\ UNCHANGED <<id_namespace, finalize_calls>>

Finalize ==
    \E self \in Regs, ns_dict \in NsDictArgs, schemaloc_dict \in SchemalocDictArgs :
        \E out \in finalize(World, self, ns_dict, schemaloc_dict) :
            /\ ncalls < MaxCalls
            /\ Becomes(out.w)
            /\ last' = Call("finalize", self, "", ns_dict, schemaloc_dict,
                            out.raised, out.warnings)
            /\ finalize_calls' = [finalize_calls EXCEPT ![self] = @ + 1]
            /\ ncalls' = ncalls + 1
            /\ returned' = None
            /\ args_after' = finalize_args(self, ns_dict, schemaloc_dict, out)
            /\ UNCHANGED id_namespace

\* parser.get_xmlns_str(self.finalized_namespaces), the map get_namespaces
\* returns for the registry it finalized
GetXmlnsStr ==
    \E self \in Regs :
        /\ ncalls < MaxCalls
        /\ finalized_namespaces[self] # None
        /\ returned' = PyStr(get_xmlns_str(finalized_namespaces[self].items))
        /\ last' = Call("get_xmlns_str", self, "", None, None, None, {})
        /\ ncalls' = ncalls + 1
        /\ args_after' = ArgsAfter(None, None, {})
        /\ UNCHANGED <<collected_namespaces, none_key, set_objects,
                       input_namespaces, input_schemalocs, collected_classes,
                       finalized_namespaces, finalized_schemalocs,
                       id_namespace, finalize_calls>>

\* parser.get_schemaloc_str(self.finalized_schemalocs), the map
\* get_namespace_schemalocation_dict returns for the registry it finalized
GetSchemalocStr ==
    \E self \in Regs :
        /\ ncalls < MaxCalls
        /\ finalized_schemalocs[self] # None
        /\ returned' = PyStr(get_schemaloc_str(finalized_schemalocs[self].items))
        /\ last' = Call("get_schemaloc_str", self, "", None, None, None, {})
        /\ ncalls' = ncalls + 1
        /\ args_after' = ArgsAfter(None, None, {})
        /\ UNCHANGED <<collected_namespaces, none_key, set_objects,
                       input_namespaces, input_schemalocs, collected_classes,
                       finalized_namespaces, finalized_schemalocs,
                       id_namespace, finalize_calls>>

Next == Collect \/ Update \/ Finalize \/ GetXmlnsStr \/ GetSchemalocStr

Spec == Init /\ [][Next]_vars

----------------------------------------------------------------------------
\* Vocabulary of the properties

\* The last call was finalize and it returned
Succeeded == last.op = "finalize" /\ last.raised = None

\* The last call was finalize and it raised DuplicatePrefixError
Conflicted == last.op = "finalize" /\ last.raised.type = "DuplicatePrefixError"

\* The finalized maps of the registry of the last call
FinNs == finalized_namespaces[last.self].items

FinLocs == finalized_schemalocs[last.self].items

\* This step is a finalize call on self
FinalizeStep(self) ==
    /\ ncalls' = ncalls + 1
    /\ last'.op = "finalize"
    /\ last'.self = self

\* The (prefix, namespace) bindings the contents of registry r and the
\* ns_dict argument contribute to a merge: baseline, document identifier,
\* parsed bindings outside the well-known namespaces, default prefixes of
\* unaliased namespaces, prefixes of visited types, bindings already in
\* the collected map, caller overrides.
Contributed(r, ns_dict) ==
    LET parsed == {ParseKlass(k) : k \in collected_classes[r]}
    IN  Items(_BASELINE_NAMESPACES)
        \cup {<<get_id_namespace_alias, get_id_namespace>>}
        \cup {p \in Items(input_namespaces[r]) :
                p[2] \notin DEFAULT_STIX_NAMESPACES_TUPLE}
        \cup {<<DEFAULT_STIX_NAMESPACES[d.ns], d.ns>> :
                d \in {x \in parsed : x.kind = "no_alias"
                                      /\ x.ns \in DOMAIN DEFAULT_STIX_NAMESPACES}}
        \cup {<<d.alias, d.ns>> : d \in {x \in parsed : x.kind = "alias"}}
        \cup Items(collected_namespaces[r])
        \cup (IF Truthy(ns_dict)
              THEN {<<ns_dict.items[ns], ns>> : ns \in DOMAIN ns_dict.items}
              ELSE {})

\* The document identifier is the library default, example -> http://example.com
DefaultId == id_namespace = [alias |-> "example", ns |-> "http://example.com"]

\* Two of the bindings give one prefix to two namespaces
Colliding(pairs) == \E p, q \in pairs : p[1] = q[1] /\ p[2] # q[2]

----------------------------------------------------------------------------
\* C1: a same-prefix/different-namespace collision among the bindings that
\* contribute to the merge makes a first finalize call fail with
\* DuplicatePrefixError, and when finalize succeeds every contributed
\* binding is in the finalized map with its namespace.
C1_CollisionIsFatal ==
    (last.op = "finalize" /\ finalize_calls[last.self] = 1) =>
        LET pairs == Contributed(last.self, last.ns_dict)
        IN  /\ Colliding(pairs) => Conflicted
            /\ Succeeded =>
                  \A p \in pairs : p[1] \in DOMAIN FinNs /\ FinNs[p[1]] = p[2]

\* C2: under the default document identifier, with the caller override mapping "x" to NS_A and the only visited
\* type with a prefix binding "x" to NS_B, a first finalize call raises
\* DuplicatePrefixError carrying "x", NS_A (already bound) and NS_B (being
\* inserted), each as a plain string.
C2_ConflictCarriesBoth ==
    ( /\ DefaultId
      /\ last.op = "finalize" /\ finalize_calls[last.self] = 1
      /\ last.ns_dict = Dict(NS_A :> "x")
      /\ collected_classes[last.self] = MRO("VendorB")
      /\ collected_namespaces[last.self] = ("x" :> NS_B)
      /\ input_namespaces[last.self] = EmptyDict )
    => /\ Conflicted
       /\ last.raised.prefix = PyStr("x")
       /\ last.raised.source_ns = PyStr(NS_A)
       /\ last.raised.dest_ns = PyStr(NS_B)

\* C3: when finalize succeeds the finalized map binds every baseline prefix
\* to its baseline namespace and the document-identifier prefix to the
\* document-identifier namespace.
C3_BaselineAlwaysPresent ==
    Succeeded =>
        /\ \A a \in DOMAIN _BASELINE_NAMESPACES :
              a \in DOMAIN FinNs /\ FinNs[a] = _BASELINE_NAMESPACES[a]
        /\ get_id_namespace_alias \in DOMAIN FinNs
        /\ FinNs[get_id_namespace_alias] = get_id_namespace

\* C4: a finalize call that fails with DuplicatePrefixError leaves
\* finalized_namespaces and finalized_schemalocs as they were before it.
C4_NoPartialResult ==
    [][\A self \in Regs :
          (FinalizeStep(self) /\ last'.raised.type = "DuplicatePrefixError")
          => /\ finalized_namespaces'[self] = finalized_namespaces[self]
             /\ finalized_schemalocs'[self] = finalized_schemalocs[self]]_vars

\* C4 witness: finalize failed with DuplicatePrefixError on a registry that
\* holds collected types, and its finalized maps are still unset.
C4_Witness ==
    /\ Conflicted
    /\ collected_classes[last.self] # {}
    /\ finalized_namespaces[last.self] = None
    /\ finalized_schemalocs[last.self] = None

\* C5: after a successful finalize under the default document identifier, every namespace of the finalized
\* namespace map that has a default schema location has that default as its
\* finalized schema location, whatever the parsed input or the caller gave.
C5_DefaultLocationWins ==
    (DefaultId /\ Succeeded) =>
        \A ns \in Values(FinNs) \cap DOMAIN DEFAULT_STIX_SCHEMALOCATIONS :
            /\ ns \in DOMAIN FinLocs
            /\ FinLocs[ns] = DEFAULT_STIX_SCHEMALOCATIONS[ns]

\* C6: with the document identifier bound as "example" -> "http://example.com"
\* and the parsed input binding "example" to "http://example.com/", a first
\* finalize call on a registry whose only parsed bindings are those of the
\* sample document succeeds, drops the parsed entry and binds "example" to
\* "http://example.com".
C6_SlashVariantDropped ==
    [][\A self \in Regs :
          ( /\ FinalizeStep(self)
            /\ finalize_calls[self] = 0
            /\ DefaultId
            /\ input_namespaces[self] = Entities["parsedSample"].__input_namespaces__
            /\ collected_classes[self] = MRO("Indicator")
            /\ last'.ns_dict = None )
          => /\ last'.raised = None
             /\ "example" \notin DOMAIN input_namespaces'[self]
             /\ finalized_namespaces'[self] # None
             /\ finalized_namespaces'[self].items["example"] = "http://example.com"]_vars

\* The namespaces a warning is about: the name warned, and the namespace the
\* finalized map binds that name to.
WarnedAbout ==
    last.warnings \cup {FinNs[a] : a \in last.warnings \cap DOMAIN FinNs}

\* C7: after a successful finalize under the default document identifier, a finalized namespace with no location
\* in the default table, the parsed input or the caller's dict, that is
\* neither the document-identifier namespace nor an XML namespace, is named
\* by a warning and has no finalized schema location.
C7_UnresolvedIsWarned ==
    (DefaultId /\ Succeeded) =>
        \A ns \in Values(FinNs) :
            ( /\ ns \notin DOMAIN DEFAULT_STIX_SCHEMALOCATIONS
              /\ ns \notin DOMAIN input_schemalocs[last.self]
              /\ ~(Truthy(last.schemaloc_dict)
                   /\ ns \in DOMAIN last.schemaloc_dict.items)
              /\ ns # get_id_namespace
              /\ ns \notin DOMAIN XML_NAMESPACES )
            => ns \in last.warnings /\ ns \notin DOMAIN FinLocs

\* C8: a successful finalize under the default document identifier warns about no document-identifier namespace,
\* no XML namespace and no namespace that has a finalized location; with no
\* collected entity and no override it warns about nothing.
C8_NoWarningWhenNoneExpected ==
    (DefaultId /\ Succeeded) =>
        /\ \A ns \in WarnedAbout :
              /\ ns # get_id_namespace
              /\ ns \notin DOMAIN XML_NAMESPACES
              /\ ns \notin DOMAIN FinLocs
        /\ ( /\ collected_classes[last.self] = {}
             /\ input_namespaces[last.self] = EmptyDict
             /\ input_schemalocs[last.self] = EmptyDict
             /\ last.ns_dict = None /\ last.schemaloc_dict = None )
           => last.warnings = {}

\* What finalize() without arguments gives on registry r of w: for every
\* outcome, the exception and the two finalized maps.
FinalizeResults(w, r) ==
    {[raised |-> o.raised, namespaces |-> o.w.finalized_namespaces[r],
      schemalocs |-> o.w.finalized_schemalocs[r]] :
        o \in finalize(w, r, None, None)}

\* Registry a of w having also collected every entity b collected
CollectedBoth(w, a, b) ==
    [w EXCEPT
        !.collected_classes[a] = @ \cup w.collected_classes[b],
        !.input_namespaces[a] = DictUpdate(@, w.input_namespaces[b]),
        !.input_schemalocs[a] = DictUpdate(@, w.input_schemalocs[b])]

\* Under the default document identifier, neither registry was finalized
\* and their contents give no prefix two namespaces and no namespace two
\* locations.
NonConflicting ==
    /\ DefaultId
    /\ \A r \in Regs : finalize_calls[r] = 0
    /\ ~Colliding(Contributed("A", None) \cup Contributed("B", None))
    /\ ~Colliding(Items(input_namespaces["A"]) \cup Items(input_namespaces["B"]))
    /\ ~Colliding(Items(input_schemalocs["A"]) \cup Items(input_schemalocs["B"]))

\* C9: for unfinalized registries with non-conflicting contents, update is
\* the union of the four maps, and A.update(B); A.finalize() gives the
\* finalized maps of B.update(A); B.finalize() and of one registry that
\* collected the entities of both.
C9_MergeCommutes ==
    NonConflicting =>
        LET ab == update(World, "A", "B")
            ba == update(World, "B", "A")
        IN  /\ ab.collected_classes["A"] =
                  collected_classes["A"] \cup collected_classes["B"]
            /\ FinalizeResults(ab, "A") = FinalizeResults(ba, "B")
            /\ FinalizeResults(ab, "A") =
                  FinalizeResults(CollectedBoth(World, "A", "B"), "A")

\* C10: a finalize call on a registry on which finalize was called before
\* is rejected or is a no-op: either way it leaves the finalized maps as
\* they were.
C10_SecondFinalizeKeepsResult ==
    [][\A self \in Regs :
          (FinalizeStep(self) /\ finalize_calls[self] >= 1)
          => /\ finalized_namespaces'[self] = finalized_namespaces[self]
             /\ finalized_schemalocs'[self] = finalized_schemalocs[self]]_vars

----------------------------------------------------------------------------
\* C11: finalized_namespaces and finalized_schemalocs are written at most
\* once: once a registry's finalized map is set, no collect, update or
\* finalize call gives it another value.
C11_FinalMapsWrittenOnce ==
    [][\A self \in Regs :
          /\ finalized_namespaces[self] # None
                => finalized_namespaces'[self] = finalized_namespaces[self]
          /\ finalized_schemalocs[self] # None
                => finalized_schemalocs'[self] = finalized_schemalocs[self]]_vars

\* C12 as stated: a finalize call leaves the collected map with its
\* unaliased bucket, the parsed-input maps and the visited types of its
\* registry as they were before the call.
C12_FinalizeTouchesOnlyFinalMaps ==
    [][\A self \in Regs : FinalizeStep(self) =>
          /\ collected_namespaces'[self] = collected_namespaces[self]
          /\ none_key'[self] = none_key[self]
          /\ set_objects' = set_objects
          /\ input_namespaces'[self] = input_namespaces[self]
          /\ input_schemalocs'[self] = input_schemalocs[self]
          /\ collected_classes'[self] = collected_classes[self]]_vars

\* C12: a finalize call, returning or raising, leaves the parsed-input
\* schema locations and the visited types of its registry as they were, and
\* the parsed-input namespaces as they were but for the entry of
\* 'http://example.com/' that _fix_example_namespace may delete; the
\* collected map and its unaliased bucket are written by the alias
\* derivation and are not part of the frame.
C12_FinalizeFrame ==
    [][\A self \in Regs : FinalizeStep(self) =>
          /\ input_schemalocs'[self] = input_schemalocs[self]
          /\ collected_classes'[self] = collected_classes[self]
          /\ input_namespaces'[self] \in
                {input_namespaces[self],
                 DelItem(input_namespaces[self], "http://example.com/")}]_vars

\* C12 witness: finalize returned on a registry that holds visited types,
\* parsed namespaces and parsed schema locations, and the alias derivation
\* has written the collected map.
C12_Witness ==
    /\ Succeeded
    /\ collected_classes[last.self] # {}
    /\ input_namespaces[last.self] # EmptyDict
    /\ input_schemalocs[last.self] # EmptyDict
    /\ collected_namespaces[last.self] # EmptyDict
    /\ none_key[last.self] = NoKey

\* C20: a first finalize call on a registry returns or raises
\* DuplicatePrefixError, nothing else.
C20_FirstFinalizeTwoOutcomes ==
    (last.op = "finalize" /\ finalize_calls[last.self] = 1)
        => (last.raised = None \/ last.raised.type = "DuplicatePrefixError")

\* The visited types of registry r that declare a home namespace
HomeTypes(r) ==
    {k \in collected_classes[r] :
        Klasses[k].entity /\ Klasses[k]._namespace # ""}

\* The number of ":" separators of a qualified name
Colons(tokens) == Cardinality({i \in DOMAIN tokens : tokens[i] = ":"})

\* The (prefix, namespace) binding the precedence of C15 gives type k, or
\* <<>> when it gives none: the explicit prefix when one is declared, else
\* the part before the colon of a qualified name with exactly one colon.
PrecedenceBinding(k) ==
    LET t == Klasses[k]
    IN  IF t._XSI_NS # "" THEN <<t._XSI_NS, t._namespace>>
        ELSE IF Colons(t._XSI_TYPE) = 1 /\ t._XSI_TYPE[1] # ":"
            THEN <<t._XSI_TYPE[1], t._namespace>>
        ELSE <<>>

\* C15: the alias derivation of a finalize call gives every visited type
\* with a home namespace the binding of the precedence (explicit prefix,
\* else the first part of a two-part qualified name) and binds nothing else:
\* the prefixes it writes in the collected map are those bindings (with two
\* types on one prefix, the namespace of one of them), a type with neither
\* adds its namespace to the unaliased set and binds no prefix, and a type
\* without a home namespace changes nothing.
C15_AliasPrecedence ==
    [][\A self \in Regs :
          (FinalizeStep(self) /\ none_key[self] # NoKey) =>
            LET bound == {PrecedenceBinding(k) : k \in HomeTypes(self)} \ {<<>>}
                rest == {k \in HomeTypes(self) : PrecedenceBinding(k) = <<>>}
                ref == none_key[self]
                after == collected_namespaces'[self]
            IN  /\ set_objects'[ref] =
                      set_objects[ref] \cup {Klasses[k]._namespace : k \in rest}
                /\ DOMAIN after = DOMAIN collected_namespaces[self]
                                    \cup {p[1] : p \in bound}
                /\ \A a \in DOMAIN after :
                      IF a \in {p[1] : p \in bound}
                      THEN <<a, after[a]>> \in bound
                      ELSE after[a] = collected_namespaces[self][a]]_vars

\* C15 witness: finalize ran on a registry that visited VendorA (explicit
\* prefix "x" and qualified name "y:AType") and TTP (a qualified name of
\* three parts): "x" is bound to NS_A, "y" is not bound, and the TTP
\* namespace is in the unaliased set with no prefix bound for it.
C15_Witness ==
    /\ Succeeded
    /\ {"VendorA", "TTP", "stix.Entity"} \subseteq collected_classes[last.self]
    /\ collected_namespaces[last.self] = ("x" :> NS_A)
    /\ "http://stix.mitre.org/TTP-1" \in set_objects[last.self]

\* This step is a collect call
CollectStep == ncalls' = ncalls + 1 /\ last'.op = "collect"

\* C18: no collect call changes the collected prefix map, the unaliased set
\* or the finalized maps of any registry, and collecting an entity that
\* carries no parsed-source data and whose type was already visited leaves
\* all the registry state unchanged.
C18_CollectOnlyRecords ==
    [][CollectStep =>
          /\ collected_namespaces' = collected_namespaces
          /\ none_key' = none_key
          /\ set_objects' = set_objects
          /\ finalized_namespaces' = finalized_namespaces
          /\ finalized_schemalocs' = finalized_schemalocs
          /\ ( /\ ~Entities[last'.arg].has_input
               /\ MRO(Entities[last'.arg].klass)
                     \subseteq collected_classes[last'.self] )
                => World' = World]_vars

\* C18 witness: the second call of a run is a collect of an entity without
\* parsed-source data on a registry whose only earlier call collected an
\* entity of the same type (no update or finalize was made, and the other
\* registry is empty); the type declares an explicit prefix, and the
\* collected map is still empty.
C18_Witness ==
    /\ ncalls = 2
    /\ last.op = "collect"
    /\ ~Entities[last.arg].has_input
    /\ Klasses[Entities[last.arg].klass]._XSI_NS # ""
    /\ collected_classes[last.self] = MRO(Entities[last.arg].klass)
    /\ \A r \in Regs \ {last.self} : collected_classes[r] = {}
    /\ \A r \in Regs :
          /\ none_key[r] = r
          /\ finalize_calls[r] = 0
          /\ input_namespaces[r] = EmptyDict
          /\ input_schemalocs[r] = EmptyDict
          /\ collected_namespaces[r] = EmptyDict

\* C17: in the finalized schema locations a namespace of the caller's
\* schemaloc_dict has the caller's location, also when the parsed input
\* gives it another one, and a namespace the parsed input alone gives has
\* the parsed location; a default schema location is the one value that may
\* stand in place of either.
C17_CallerLocationFirst ==
    Succeeded =>
        LET caller == IF Truthy(last.schemaloc_dict)
                      THEN last.schemaloc_dict.items ELSE EmptyDict
            parsed == input_schemalocs[last.self]
        IN  \A ns \in DOMAIN caller \cup DOMAIN parsed :
                /\ ns \in DOMAIN FinLocs
                /\ \/ FinLocs[ns] = IF ns \in DOMAIN caller THEN caller[ns]
                                    ELSE parsed[ns]
                   \/ /\ ns \in DOMAIN DEFAULT_STIX_SCHEMALOCATIONS
                      /\ FinLocs[ns] = DEFAULT_STIX_SCHEMALOCATIONS[ns]

\* C17 witness: finalize returned with NS_A located by the caller and,
\* differently, by the parsed input; NS_A has the caller's location.
C17_Witness ==
    /\ Succeeded
    /\ Truthy(last.schemaloc_dict)
    /\ last.schemaloc_dict.items[NS_A] = LOC_A_CALLER
    /\ NS_A \in DOMAIN input_schemalocs[last.self]
    /\ input_schemalocs[last.self][NS_A] = LOC_A_INPUT
    /\ FinLocs[NS_A] = LOC_A_CALLER

\* The bindings a finalize call on registry r can draw from sources other
\* than the parsed bindings of well-known namespaces: those of Contributed
\* and the default prefixes of the namespaces held in the unaliased sets.
OtherSources(r, ns_dict) ==
    Contributed(r, ns_dict)
    \cup {<<DEFAULT_STIX_NAMESPACES[ns], ns>> :
            ns \in (UNION {set_objects[o] : o \in Regs})
                      \cap DOMAIN DEFAULT_STIX_NAMESPACES}

\* C16: a parsed-input binding of a well-known namespace takes no part in
\* finalize: a DuplicatePrefixError raised by finalize is about two bindings
\* of the other sources, every binding of a finalized map comes from the
\* other sources, and every parsed-input binding of a namespace that is not
\* well-known is in the finalized map when finalize succeeds.
C16_WellKnownInputSkipped ==
    last.op = "finalize" =>
        LET src == OtherSources(last.self, last.ns_dict)
            others == {p \in Items(input_namespaces[last.self]) :
                         p[2] \notin DOMAIN DEFAULT_STIX_NAMESPACES}
        IN  /\ Conflicted =>
                /\ <<last.raised.prefix.value, last.raised.dest_ns.value>> \in src
                /\ <<last.raised.prefix.value,
                     last.raised.source_ns.value.value>> \in src
            /\ Succeeded =>
                /\ \A a \in DOMAIN FinNs : <<a, FinNs[a]>> \in src
                /\ \A p \in others : p[1] \in DOMAIN FinNs /\ FinNs[p[1]] = p[2]

\* C16 witness: under the default document identifier finalize returned on
\* a registry whose parsed input binds "cybox", the baseline prefix of the
\* CybOX core namespace, to the well-known STIX core namespace, next to the
\* bindings of NS_B and NS_C: "cybox" is still the CybOX core namespace, and
\* "x" and "c" were inserted.
C16_Witness ==
    /\ Succeeded
    /\ DefaultId
    /\ "cybox" \in DOMAIN input_namespaces[last.self]
    /\ input_namespaces[last.self]["cybox"] = "http://stix.mitre.org/stix-1"
    /\ FinNs["cybox"] = "http://cybox.mitre.org/cybox-2"
    /\ FinNs["x"] = NS_B
    /\ FinNs["c"] = NS_C

\* The lists of the pairs of a set in ascending order of their k-th items
RECURSIVE Ascending(_, _)
Ascending(pairs, k) ==
    IF pairs = {} THEN {<<>>}
    ELSE LET firsts == {p \in pairs : \A q \in pairs : ~StrLess(q[k], p[k])}
         IN  UNION {{<<p>> \o rest : rest \in Ascending(pairs \ {p}, k)} :
                      p \in firsts}

\* C13: under the default document identifier, the string get_xmlns_str
\* returns for the finalized namespace map of a registry is made of one
\* declaration xmlns:prefix="namespace" for each finalized binding, in
\* ascending order of the namespaces.
C13_OneDeclarationPerBinding ==
    (last.op = "get_xmlns_str" /\ DefaultId) =>
        returned.value \in
            {join("\n\t", [i \in DOMAIN l |->
                    "xmlns:" \o l[i][1] \o "=\"" \o l[i][2] \o "\""]) :
                l \in Ascending(Items(FinNs), 2)}

\* C14: the string get_schemaloc_str returns for a schema-location map is
\* empty when the map has no entry, and otherwise is one xsi:schemaLocation
\* attribute whose value holds one "namespace location" pair for each entry,
\* in ascending order of the namespaces.
C14_SchemaLocationAttribute ==
    last.op = "get_schemaloc_str" =>
        IF DOMAIN FinLocs = {} THEN returned = PyStr("")
        ELSE returned.value \in
                {"xsi:schemaLocation=\"\n\t"
                    \o join("\n\t", [i \in DOMAIN l |-> l[i][1] \o " " \o l[i][2]])
                    \o "\"" :
                    l \in Ascending(Items(FinLocs), 1)}

\* C14 witness: get_schemaloc_str returned a non-empty string for a
\* finalized map that locates the STIX core namespace and NS_A.
C14_Witness ==
    /\ last.op = "get_schemaloc_str"
    /\ {"http://stix.mitre.org/stix-1", NS_A} \subseteq DOMAIN FinLocs
    /\ returned # PyStr("")

\* C19: a finalize call, returning or raising, leaves the ns_dict and the
\* schemaloc_dict of its caller as they were passed, and neither is the
\* object of a finalized attribute.
C19_CallerDictsUntouched ==
    last.op = "finalize" =>
        /\ args_after.ns_dict = last.ns_dict
        /\ args_after.schemaloc_dict = last.schemaloc_dict
        /\ args_after.shared = {}

\* C19 witness: finalize returned for a caller that passed a non-empty
\* ns_dict and a non-empty schemaloc_dict; the finalized namespace map holds
\* more than the ns_dict passed, which is as it was.
C19_Witness ==
    /\ Succeeded
    /\ Truthy(last.ns_dict)
    /\ Truthy(last.schemaloc_dict)
    /\ args_after.ns_dict = last.ns_dict
    /\ Cardinality(DOMAIN FinNs) > Cardinality(DOMAIN last.ns_dict.items)
    /\ FinLocs = last.schemaloc_dict.items

\* C21: under the default document identifier, a call made on one registry
\* (update with r as its argument, collect, finalize or a rendering) leaves
\* every other registry r as it was: its collected map, its parsed-input
\* maps, its visited types, its finalized maps, and the contents of the
\* unaliased set its None key refers to.
C21_RegistriesIndependent ==
    [][\A r \in Regs :
          (DefaultId /\ ncalls' = ncalls + 1 /\ last'.self # r) =>
            /\ collected_namespaces'[r] = collected_namespaces[r]
            /\ none_key'[r] = none_key[r]
            /\ input_namespaces'[r] = input_namespaces[r]
            /\ input_schemalocs'[r] = input_schemalocs[r]
            /\ collected_classes'[r] = collected_classes[r]
            /\ finalized_namespaces'[r] = finalized_namespaces[r]
            /\ finalized_schemalocs'[r] = finalized_schemalocs[r]
            /\ none_key[r] # NoKey =>
                  set_objects'[none_key[r]] = set_objects[none_key[r]]]_vars

====
